---- MODULE Spec2Model ----
\* Model of visualization.py: the Open3D figure wrapper, the Frame and
\* Trajectory artists, the camera re-pose of Figure.view_init and the URDF
\* object dispatch of show_urdf_transform_manager.
EXTENDS Integers, Sequences, FiniteSets, TLC

VARIABLES geoms, obj, key_frames_indices, extrinsic, extrinsic0, err, call

vars == <<geoms, obj, key_frames_indices, extrinsic, extrinsic0, err, call>>

\* ---------------------------------------------------------------- bounds
\* longest pose sequence handed to a Trajectory
MaxN == 4
\* largest n_frames handed to a Trajectory
MaxFrames == 5
\* largest |coordinate| of the camera translation the renderer starts with
MaxCoord == 2
\* angles are k * 90 degrees for k in -MaxTurns .. MaxTurns
MaxTurns == 2
\* most URDF objects (visuals + collision objects) carried by the graph
MaxObjs == 2

\* ------------------------------------------------------- transform math
I3 == <<<<1, 0, 0>>, <<0, 1, 0>>, <<0, 0, 1>>>>

Transpose(A) == [i \in 1..3 |-> [j \in 1..3 |-> A[j][i]]]

\* numpy ndarray.dot on 3x3 matrices
Dot(A, B) ==
    [i \in 1..3 |-> [j \in 1..3 |->
        A[i][1] * B[1][j] + A[i][2] * B[2][j] + A[i][3] * B[3][j]]]

\* pytransform3d.transformations.transform_from: the 4x4 matrix, kept as its
\* rotation block R and its translation column p
transform_from(R, p) == [R |-> R, p |-> p]

\* pytransform3d.rotations.matrix_from_quaternion on a unit quaternion (w,x,y,z)
matrix_from_quaternion(q) ==
    LET w == q[1]
        x == q[2]
        y == q[3]
        z == q[4]
    IN  << <<1 - 2*y*y - 2*z*z, 2*x*y - 2*z*w, 2*x*z + 2*y*w>>,
           <<2*x*y + 2*z*w, 1 - 2*x*x - 2*z*z, 2*y*z - 2*x*w>>,
           <<2*x*z - 2*y*w, 2*y*z + 2*x*w, 1 - 2*x*x - 2*y*y>> >>

\* pytransform3d.trajectories.matrices_from_pos_quat: rows (x,y,z,qw,qx,qy,qz)
matrices_from_pos_quat(P) ==
    [k \in 1..Len(P) |->
        transform_from(matrix_from_quaternion(<<P[k][4], P[k][5], P[k][6], P[k][7]>>),
                       <<P[k][1], P[k][2], P[k][3]>>)]

\* ------------------------------------------------------------- inputs
\* position + unit quaternion rows a caller may pass
PQRows ==
    {<<0, 0, 0, 1, 0, 0, 0>>, <<1, 2, 0, 0, 0, 0, 1>>, <<0, 1, 2, 0, 1, 0, 0>>}

SeqsUpTo(S, n) == UNION {[1..m -> S] : m \in 0..n}

PoseSet == {matrices_from_pos_quat(<<r>>)[1] : r \in PQRows}

Scales == {1, 2}

\* (scale, colour) pairs a trajectory is drawn with
Styles == {[s |-> 1, c |-> <<0, 0, 0>>], [s |-> 2, c |-> <<1, 0, 0>>]}

Labels == {"None", "base"}

NoObject == [kind |-> "None"]

\* ------------------------------------------------------------- Figure
\* Figure.add_geometry
add_geometry(gs, geometry) == Append(gs, geometry)

\* ------------------------------------------------------------- Frame
\* Frame.__init__ (a label only triggers a warning)
Frame(A2B, label, s) == [kind |-> "Frame", A2B |-> A2B, label |-> label, s |-> s]

\* Frame.add_frame: create_coordinate_frame(size=s), transform(A2B), add
add_frame(gs, f) ==
    add_geometry(gs, [type |-> "CoordinateFrame", size |-> f.s, T |-> f.A2B])

\* --------------------------------------------------------- Trajectory
\* Trajectory.__init__
Trajectory(H, show_direction, n_frames, s, c) ==
    [kind |-> "Trajectory", H |-> H, show_direction |-> show_direction,
     n_frames |-> n_frames, s |-> s, c |-> c]

ToIntNearest(num, den, rounding) == (2 * num + den) \div (2 * den)

\* conversion of the quotient num/den (den > 0) to an integer by dtype=int:
\* the fraction is dropped; for a negative quotient numpy >= 1.20 floors and
\* older numpy truncates in astype
ToInt(num, den, rounding) ==
    IF num >= 0 THEN num \div den
    ELSE IF rounding = "floor" THEN -((-num + den - 1) \div den)
    ELSE -((-num) \div den)

linspace_no_endpoint(start, stop, num, rounding) ==
    IF num = 0 THEN << >>
    ELSE [k \in 1..num |-> start + ToInt((k - 1) * (stop - start), num, rounding)]

\* np.linspace(start, stop, num, dtype=int): num samples, endpoint included and
\* set to stop exactly
linspace(start, stop, num, rounding) ==
    IF num = 0 THEN << >>
    ELSE IF num = 1 THEN <<start>>
    ELSE [k \in 1..num |->
            IF k = num THEN stop
            ELSE start + ToInt((k - 1) * (stop - start), num - 1, rounding)]

line_indices_closed(n) ==
    [i \in 1..n |-> IF i = n THEN <<n - 1, 0>> ELSE <<i - 1, i>>]

\* np.hstack((np.arange(n - 1)[:, None], np.arange(1, n)[:, None]))
line_indices(n) == [i \in 1..(n - 1) |-> <<i - 1, i>>]

\* the LineSet built by add_trajectory
line_set_of(t) ==
    LET points == [k \in 1..Len(t.H) |-> t.H[k].p]
        lines  == line_indices(Len(points))
        colors == [i \in 1..Len(lines) |-> t.c]
    IN  [type |-> "LineSet", points |-> points, lines |-> lines, colors |-> colors]

\* the key-frame loop of add_trajectory from position k; indexing H raises
\* IndexError outside [-N, N-1] and wraps negative indices
RECURSIVE key_frame_loop(_, _, _, _)
key_frame_loop(gs, t, idx, k) ==
    IF k > Len(idx) THEN [geoms |-> gs, err |-> "none"]
    ELSE LET N == Len(t.H)
             i == idx[k]
         IN  IF i >= N \/ i < -N THEN [geoms |-> gs, err |-> "IndexError"]
             ELSE key_frame_loop(
                      add_frame(gs, Frame(t.H[((i + N) % N) + 1], "None", t.s)),
                      t, idx, k + 1)

\* Trajectory.add_trajectory as a function of the figure's geometries
add_trajectory(gs, t, rounding) ==
    LET gs1 == add_geometry(gs, line_set_of(t))
        idx == linspace(0, Len(t.H) - 1, t.n_frames, rounding)
        r   == key_frame_loop(gs1, t, idx, 1)
    IN  [geoms |-> r.geoms, err |-> r.err, key_frames_indices |-> idx]

\* --------------------------------------------------- artist operations
\* the scenes an artist is built for and added to: the empty figure, or the
\* figure holding one unit basis at the first pose
PriorScenes ==
    {<< >>, add_frame(<< >>, Frame(transform_from(I3, <<0, 0, 0>>), "None", 1))}

\* the caller builds into a prior scene and holds at most one artist (obj);
\* the artists plot_basis and plot_trajectory build are their locals
CanBuild == geoms \in PriorScenes /\ obj = NoObject

CameraUnchanged == UNCHANGED <<extrinsic, extrinsic0>>

Called(op, show_direction, artist) ==
    [op |-> op, show_direction |-> show_direction, artist |-> artist]

\* plot_basis(figure, R, p, s)
plot_basis(R, p, s) ==
    /\ CanBuild
    /\ LET A2B == transform_from(R, p)
           frame == Frame(A2B, "None", s)
       IN  /\ geoms' = add_frame(geoms, frame)
           /\ call' = Called("plot_basis", FALSE, frame)
    /\ err' = "none"
    /\ UNCHANGED <<obj, key_frames_indices>>
    /\ CameraUnchanged

\* plot_trajectory(figure, P, show_direction, n_frames, s, c)
plot_trajectory(P, show_direction, n_frames, s, c, rounding) ==
    /\ CanBuild
    /\ LET H == matrices_from_pos_quat(P)
       IN  IF show_direction
           THEN /\ err' = "AssertionError"
                /\ call' = Called("plot_trajectory", show_direction, NoObject)
                /\ UNCHANGED <<geoms, key_frames_indices>>
           ELSE LET trajectory == Trajectory(H, show_direction, n_frames, s, c)
                    r == add_trajectory(geoms, trajectory, rounding)
                IN  /\ call' = Called("plot_trajectory", show_direction, trajectory)
                    /\ geoms' = r.geoms
                    /\ err' = r.err
                    /\ key_frames_indices' = r.key_frames_indices
    /\ UNCHANGED obj
    /\ CameraUnchanged

\* Frame(A2B, label, s)
Frame_init(A2B, label, s) ==
    /\ CanBuild
    /\ obj' = Frame(A2B, label, s)
    /\ err' = "none"
    /\ call' = Called("Frame", FALSE, obj')
    /\ UNCHANGED <<geoms, key_frames_indices>>
    /\ CameraUnchanged

Frame_set_data_assigns(A2B, label) ==
    /\ obj.kind = "Frame"
    /\ obj' = [obj EXCEPT !.A2B = A2B, !.label = label]
    /\ err' = "none"
    /\ call' = Called("Frame.set_data", FALSE, obj)
    /\ UNCHANGED <<geoms, key_frames_indices>>
    /\ CameraUnchanged

\* Frame.set_data(A2B, label)
Frame_set_data(A2B, label) ==
    /\ obj.kind = "Frame"
    /\ err' = "NotImplementedError"
    /\ call' = Called("Frame.set_data", FALSE, obj)
    /\ UNCHANGED <<geoms, obj, key_frames_indices>>
    /\ CameraUnchanged

\* Frame.add_frame(figure)
Frame_add_frame ==
    /\ obj.kind = "Frame"
    /\ geoms \in PriorScenes
    /\ geoms' = add_frame(geoms, obj)
    /\ err' = "none"
    /\ call' = Called("Frame.add_frame", FALSE, obj)
    /\ UNCHANGED <<obj, key_frames_indices>>
    /\ CameraUnchanged

\* Trajectory(H, show_direction, n_frames, s, c)
Trajectory_init(H, show_direction, n_frames, s, c) ==
    /\ CanBuild
    /\ obj' = Trajectory(H, show_direction, n_frames, s, c)
    /\ err' = "none"
    /\ call' = Called("Trajectory", show_direction, obj')
    /\ UNCHANGED <<geoms, key_frames_indices>>
    /\ CameraUnchanged

\* Trajectory.set_data(H, label)
Trajectory_set_data(H, label) ==
    /\ obj.kind = "Trajectory"
    /\ err' = "NotImplementedError"
    /\ call' = Called("Trajectory.set_data", FALSE, obj)
    /\ UNCHANGED <<geoms, obj, key_frames_indices>>
    /\ CameraUnchanged

\* the integer conversions numpy versions differ in (they agree unless the
\* sampled interval is [0, -1], the empty pose sequence)
Roundings(N) == IF N = 0 THEN {"floor", "trunc"} ELSE {"floor"}

\* Trajectory.add_trajectory(figure)
Trajectory_add_trajectory ==
    /\ obj.kind = "Trajectory"
    /\ geoms \in PriorScenes
    /\ \E rounding \in Roundings(Len(obj.H)) :
         LET r == add_trajectory(geoms, obj, rounding)
         IN  /\ geoms' = r.geoms
             /\ err' = r.err
             /\ key_frames_indices' = r.key_frames_indices
    /\ call' = Called("Trajectory.add_trajectory", obj.show_direction, obj)
    /\ UNCHANGED obj
    /\ CameraUnchanged

\* the state after figure(): an empty scene, no artist built yet
Init ==
    /\ geoms = << >>
    /\ obj = NoObject
    /\ key_frames_indices = << >>
    /\ extrinsic = transform_from(I3, <<0, 0, 1>>)
    /\ extrinsic0 = extrinsic
    /\ err = "none"
    /\ call = Called("figure", FALSE, NoObject)

Next ==
    \/ \E A \in PoseSet, s \in Scales : plot_basis(A.R, A.p, s)
    \/ /\ CanBuild
       /\ \E P \in SeqsUpTo(PQRows, MaxN), sd \in BOOLEAN, n \in 0..MaxFrames,
             st \in Styles :
               \E rd \in Roundings(Len(P)) : plot_trajectory(P, sd, n, st.s, st.c, rd)
    \/ \E A \in PoseSet, l \in Labels, s \in Scales : Frame_init(A, l, s)
    \/ \E A \in PoseSet, l \in Labels : Frame_set_data(A, l)
    \/ Frame_add_frame
    \/ /\ CanBuild
       /\ \E H \in SeqsUpTo(PoseSet, MaxN), sd \in BOOLEAN, n \in 0..MaxFrames,
             st \in Styles :
               Trajectory_init(H, sd, n, st.s, st.c)
    \/ \E H \in SeqsUpTo(PoseSet, 1), l \in Labels : Trajectory_set_data(H, l)
    \/ Trajectory_add_trajectory

Spec == Init /\ [][Next]_vars

\* ------------------------------------------------------------- camera
\* np.cos / np.sin of np.deg2rad(a) at the multiples of 90 degrees
CosDeg(a) == LET m == a % 360 IN IF m = 0 THEN 1 ELSE IF m = 180 THEN -1 ELSE 0

SinDeg(a) == LET m == a % 360 IN IF m = 90 THEN 1 ELSE IF m = 270 THEN -1 ELSE 0

passive_matrix_from_angle(basis, a) ==
    LET c == CosDeg(a)
        s == SinDeg(a)
    IN  IF basis = 0 THEN <<<<1, 0, 0>>, <<0, c, s>>, <<0, -s, c>>>>
        ELSE IF basis = 1 THEN <<<<c, 0, -s>>, <<0, 1, 0>>, <<s, 0, c>>>>
        ELSE <<<<c, s, 0>>, <<-s, c, 0>>, <<0, 0, 1>>>>

\* pytransform3d.rotations.active_matrix_from_angle(basis, np.deg2rad(a))
active_matrix_from_angle(basis, a) ==
    LET c == CosDeg(a)
        s == SinDeg(a)
    IN  IF basis = 0 THEN <<<<1, 0, 0>>, <<0, c, -s>>, <<0, s, c>>>>
        ELSE IF basis = 1 THEN <<<<c, 0, s>>, <<0, 1, 0>>, <<-s, 0, c>>>>
        ELSE <<<<c, -s, 0>>, <<s, c, 0>>, <<0, 0, 1>>>>

NormSq(v) == v[1] * v[1] + v[2] * v[2] + v[3] * v[3]

norm_of_z(v) == IF v[3] >= 0 THEN v[3] ELSE -v[3]

\* np.linalg.norm on a translation whose length is a whole number
norm(v) == CHOOSE d \in 0..(2 * MaxCoord + 2) : d * d = NormSq(v)

R_azim_elev_0_world2camera == <<<<0, 1, 0>>, <<0, 0, -1>>, <<-1, 0, 0>>>>

view_init_relative(E, azim, elev) ==
    LET distance == norm(E.p)
        R_azim == active_matrix_from_angle(2, azim)
        R_elev == active_matrix_from_angle(1, -elev)
    IN  transform_from(Transpose(Dot(Dot(R_azim, R_elev), Transpose(E.R))),
                       <<0, 0, distance>>)

\* the extrinsic Figure.view_init computes from the renderer's current one
view_init_extrinsic(E, azim, elev) ==
    LET distance == norm(E.p)
        R_azim_elev_0_camera2world == Transpose(R_azim_elev_0_world2camera)
        R_azim == active_matrix_from_angle(2, azim)
        R_elev == active_matrix_from_angle(1, -elev)
        R_elev_azim_camera2world ==
            Dot(Dot(R_azim, R_elev), R_azim_elev_0_camera2world)
    IN  transform_from(Transpose(R_elev_azim_camera2world), <<0, 0, distance>>)

\* Figure.view_init(azim, elev): read the extrinsic, write the new one back
view_init(azim, elev) ==
    /\ extrinsic' = view_init_extrinsic(extrinsic, azim, elev)
    /\ call' = [op |-> "view_init", azim |-> azim, elev |-> elev]
    /\ err' = "none"
    /\ UNCHANGED <<geoms, obj, key_frames_indices, extrinsic0>>

Angles == {90 * k : k \in (-MaxTurns)..MaxTurns}

\* camera translations of whole-number length
InitTranslations ==
    {v \in ((-MaxCoord)..MaxCoord) \X ((-MaxCoord)..MaxCoord) \X ((-MaxCoord)..MaxCoord) :
        \E d \in 0..(2 * MaxCoord) : d * d = NormSq(v)}

\* a fresh figure whose renderer holds some rigid extrinsic
InitCam ==
    /\ geoms = << >>
    /\ obj = NoObject
    /\ key_frames_indices = << >>
    /\ extrinsic \in {transform_from(R, p) :
                        R \in {I3, R_azim_elev_0_world2camera,
                               active_matrix_from_angle(0, 90)},
                        p \in InitTranslations}
    /\ extrinsic0 = extrinsic
    /\ err = "none"
    /\ call = Called("figure", FALSE, NoObject)

NextCam == \E azim \in Angles, elev \in Angles : view_init(azim, elev)

SpecCam == InitCam /\ [][NextCam]_vars

\* ------------------------------------------------------ URDF projection
\* the frames of the transform manager (tm.nodes) and where each sits
TmNodes == <<"base", "link1">>

TmPosition == [base |-> <<0, 0, 0>>, link1 |-> <<1, 0, 0>>]

\* tm.get_transform(from_frame, to_frame) on a translation-only graph
get_transform(from_frame, to_frame) ==
    transform_from(I3,
        <<TmPosition[from_frame][1] - TmPosition[to_frame][1],
          TmPosition[from_frame][2] - TmPosition[to_frame][2],
          TmPosition[from_frame][3] - TmPosition[to_frame][3]>>)

UrdfObject(kind, frame, mesh_path, scale) ==
    [kind |-> kind, frame |-> frame, mesh_path |-> mesh_path, scale |-> scale]

\* urdf.Box, urdf.Sphere, urdf.Cylinder and urdf.Mesh instances of the graph
UrdfObjects ==
    {UrdfObject("Box", "link1", "None", 1),
     UrdfObject("Sphere", "link1", "None", 1),
     UrdfObject("Cylinder", "base", "None", 1),
     UrdfObject("Mesh", "base", "None", 1),
     UrdfObject("Mesh", "base", "base.stl", 1),
     UrdfObject("Mesh", "link1", "link1.stl", 2)}

Shown(gs, e) == [geoms |-> gs, err |-> e]

box_show_skips(o, gs, frame, c) == Shown(gs, "none")

\* box_show
box_show(o, gs, frame, c) == Shown(gs, "NotImplementedError")

\* sphere_show
sphere_show(o, gs, frame, c) == Shown(gs, "NotImplementedError")

\* cylinder_show
cylinder_show(o, gs, frame, c) == Shown(gs, "NotImplementedError")

\* mesh_show: c = << >> stands for c=None (the file's colours are kept)
mesh_show(o, gs, frame, c) ==
    IF o.mesh_path = "None" THEN Shown(gs, "none")
    ELSE LET A2B == get_transform(o.frame, frame)
             mesh == [type |-> "TriangleMesh", filename |-> o.mesh_path,
                      scale |-> o.scale, T |-> A2B, vertex_colors |-> c]
         IN  Shown(add_geometry(gs, mesh), "none")

\* obj.show(figure, tm, frame, c): the method attached to the object's class
show(o, gs, frame, c) ==
    IF o.kind = "Box" THEN box_show(o, gs, frame, c)
    ELSE IF o.kind = "Sphere" THEN sphere_show(o, gs, frame, c)
    ELSE IF o.kind = "Cylinder" THEN cylinder_show(o, gs, frame, c)
    ELSE mesh_show(o, gs, frame, c)

\* _add_objects from position k: the first exception ends the loop
RECURSIVE add_objects(_, _, _, _, _)
add_objects(gs, objects, frame, c, k) ==
    IF k > Len(objects) THEN Shown(gs, "none")
    ELSE LET r == show(objects[k], gs, frame, c)
         IN  IF r.err # "none" THEN r
             ELSE add_objects(r.geoms, objects, frame, c, k + 1)

\* _add_frame
add_frame_of_node(gs, from_frame, to_frame, whitelist, s) ==
    IF whitelist.given /\ from_frame \notin whitelist.names THEN gs
    ELSE add_frame(gs, Frame(get_transform(from_frame, to_frame), "None", s))

\* the loop over tm.nodes of show_urdf_transform_manager, from position k
RECURSIVE add_frames(_, _, _, _, _)
add_frames(gs, frame, whitelist, s, k) ==
    IF k > Len(TmNodes) THEN gs
    ELSE add_frames(add_frame_of_node(gs, TmNodes[k], frame, whitelist, s),
                    frame, whitelist, s, k + 1)

\* show_urdf_transform_manager as a function of the figure's geometries
show_urdf_result(gs, tm, frame, collision_objects, visuals, frames, whitelist, s, c) ==
    LET r1 == IF collision_objects /\ tm.has_collision_objects
              THEN add_objects(gs, tm.collision_objects, frame, c, 1)
              ELSE Shown(gs, "none")
        r2 == IF r1.err # "none" THEN r1
              ELSE IF visuals /\ tm.has_visuals
                   THEN add_objects(r1.geoms, tm.visuals, frame, c, 1)
                   ELSE r1
    IN  IF r2.err # "none" THEN r2
        ELSE IF frames THEN Shown(add_frames(r2.geoms, frame, whitelist, s, 1), "none")
        ELSE r2

\* the graph is shown once per figure, into a prior scene
CanShowUrdf == geoms \in PriorScenes /\ call.op # "show_urdf_transform_manager"

\* show_urdf_transform_manager(figure, tm, frame, collision_objects, visuals,
\*                             frames, whitelist, s, c)
show_urdf_transform_manager(tm, frame, collision_objects, visuals, frames, whitelist, s, c) ==
    /\ CanShowUrdf
    /\ LET r == show_urdf_result(geoms, tm, frame, collision_objects, visuals,
                                 frames, whitelist, s, c)
       IN  /\ geoms' = r.geoms
           /\ err' = r.err
    /\ call' = [op |-> "show_urdf_transform_manager", tm |-> tm, frame |-> frame,
                collision_objects |-> collision_objects, visuals |-> visuals,
                frames |-> frames, whitelist |-> whitelist, s |-> s, c |-> c]
    /\ UNCHANGED <<obj, key_frames_indices>>
    /\ CameraUnchanged

\* the object lists a graph may carry: absent attribute, or a list
ObjectLists ==
    {[has |-> FALSE, list |-> << >>]} \cup
    {[has |-> TRUE, list |-> l] : l \in SeqsUpTo(UrdfObjects, MaxObjs)}

Tms ==
    {[has_collision_objects |-> co.has, collision_objects |-> co.list,
      has_visuals |-> vi.has, visuals |-> vi.list] :
        <<co, vi>> \in {pair \in ObjectLists \X ObjectLists :
                            Len(pair[1].list) + Len(pair[2].list) <= MaxObjs}}

Whitelists ==
    {[given |-> FALSE, names |-> {}]} \cup
    {[given |-> TRUE, names |-> w] : w \in SUBSET {TmNodes[k] : k \in 1..Len(TmNodes)}}

VertexColors == {<< >>, <<1, 0, 0>>}

NextUrdf ==
    \/ \E A \in PoseSet, s \in Scales : plot_basis(A.R, A.p, s)
    \/ /\ CanShowUrdf
       /\ \E tm \in Tms, frame \in {"base", "link1"}, co \in BOOLEAN, vi \in BOOLEAN,
             fr \in BOOLEAN, wl \in Whitelists, s \in Scales, c \in VertexColors :
               show_urdf_transform_manager(tm, frame, co, vi, fr, wl, s, c)

SpecUrdf == Init /\ [][NextUrdf]_vars

\* ---------------------------------------------------------------- claims
\* a step that ran Trajectory.add_trajectory (directly or inside
\* plot_trajectory) leaves the trajectory it ran on in call.artist
RanAddTrajectory(c) ==
    /\ c.op \in {"plot_trajectory", "Trajectory.add_trajectory"}
    /\ c.artist.kind = "Trajectory"

\* C1: for a pose sequence of length N >= 2, add_trajectory submits one line
\* set whose points are the translations of H in order, whose segments are
\* exactly the pairs (i, i+1), i = 0..N-2, each coloured c.
C1_Polyline ==
    [][ (RanAddTrajectory(call') /\ Len(call'.artist.H) >= 2) =>
          LET t == call'.artist
              N == Len(t.H)
              g == geoms'[Len(geoms) + 1]
          IN  /\ Len(geoms') > Len(geoms)
              /\ SubSeq(geoms', 1, Len(geoms)) = geoms
              /\ g.type = "LineSet"
              /\ \A k \in (Len(geoms) + 2)..Len(geoms') : geoms'[k].type # "LineSet"
              /\ Len(g.points) = N
              /\ \A k \in 1..N : g.points[k] = t.H[k].p
              /\ Len(g.lines) = N - 1
              /\ \A i \in 0..(N - 2) : g.lines[i + 1] = <<i, i + 1>>
              /\ Len(g.colors) = N - 1
              /\ \A i \in 1..(N - 1) : g.colors[i] = t.c ]_vars

C1_Witness ==
    /\ RanAddTrajectory(call)
    /\ Len(call.artist.H) = 3
    /\ call.artist.c = <<1, 0, 0>>
    /\ Len(geoms) >= 2
    /\ geoms[1].type = "CoordinateFrame"
    /\ geoms[2].type = "LineSet"
    /\ geoms[2].lines = <<<<0, 1>>, <<1, 2>>>>

\* C2: for N >= 2 and n_frames >= 2, add_trajectory submits the polyline and
\* then exactly n_frames key frames; the selected indices lie in [0, N-1],
\* never decrease, start at 0 and end at N-1.
C2_KeyFrames ==
    [][ (RanAddTrajectory(call') /\ Len(call'.artist.H) >= 2
            /\ call'.artist.n_frames >= 2) =>
          LET t == call'.artist
              N == Len(t.H)
              n == t.n_frames
              base == Len(geoms)
              idx == key_frames_indices'
          IN  /\ err' = "none"
              /\ Len(geoms') = base + 1 + n
              /\ geoms'[base + 1].type = "LineSet"
              /\ Len(idx) = n
              /\ idx[1] = 0
              /\ idx[n] = N - 1
              /\ \A k \in 1..n : idx[k] \in 0..(N - 1)
              /\ \A k \in 1..(n - 1) : idx[k] <= idx[k + 1]
              /\ \A k \in 1..n :
                    geoms'[base + 1 + k] =
                        [type |-> "CoordinateFrame", size |-> t.s,
                         T |-> t.H[idx[k] + 1]] ]_vars

C2_Witness ==
    /\ RanAddTrajectory(call)
    /\ Len(call.artist.H) = 2
    /\ call.artist.n_frames = 4
    /\ err = "none"
    /\ Len(geoms) = 5
    /\ key_frames_indices = <<0, 0, 0, 1>>

\* C3 as stated: the k-th key-frame index is k*(N-1)/(n_frames-1) rounded to
\* the nearest integer (at most one half away from it).
C3_RoundedToNearest ==
    [][ (RanAddTrajectory(call') /\ Len(call'.artist.H) >= 2
            /\ call'.artist.n_frames >= 2) =>
          LET N == Len(call'.artist.H)
              n == call'.artist.n_frames
              idx == key_frames_indices'
          IN  \A k \in 0..(n - 1) :
                /\ 2 * (idx[k + 1] * (n - 1) - k * (N - 1)) <= n - 1
                /\ 2 * (k * (N - 1) - idx[k + 1] * (n - 1)) <= n - 1 ]_vars

\* C3 amended: the k-th key-frame index is k*(N-1)/(n_frames-1) rounded down
\* (the integer part), and the last index is N-1.
C3_RoundedDown ==
    [][ (RanAddTrajectory(call') /\ Len(call'.artist.H) >= 2
            /\ call'.artist.n_frames >= 2) =>
          LET N == Len(call'.artist.H)
              n == call'.artist.n_frames
              idx == key_frames_indices'
          IN  /\ Len(idx) = n
              /\ \A k \in 0..(n - 1) :
                    /\ idx[k + 1] * (n - 1) <= k * (N - 1)
                    /\ k * (N - 1) < (idx[k + 1] + 1) * (n - 1) ]_vars

C3_Witness ==
    /\ RanAddTrajectory(call)
    /\ Len(call.artist.H) = 3
    /\ call.artist.n_frames = 4
    /\ key_frames_indices = <<0, 0, 1, 2>>

\* C4: every trajectory-building request with show_direction true fails and
\* adds no geometry, through plot_trajectory or through Trajectory(...) and
\* add_trajectory.
C4_ShowDirectionFailsFast ==
    [][ (call'.op \in {"plot_trajectory", "Trajectory.add_trajectory"}
            /\ call'.show_direction) =>
          (err' # "none" /\ geoms' = geoms) ]_vars

\* C5: set_data on a built Frame or Trajectory fails with NotImplementedError
\* and changes neither the object nor any geometry in the figure.
C5_SetDataUnsupported ==
    [][ (call'.op \in {"Frame.set_data", "Trajectory.set_data"}) =>
          /\ err' = "NotImplementedError"
          /\ obj' = obj
          /\ geoms' = geoms
          /\ key_frames_indices' = key_frames_indices ]_vars

C5_Witness ==
    /\ call.op = "Frame.set_data"
    /\ err = "NotImplementedError"
    /\ obj.kind = "Frame"
    /\ obj.A2B.p = <<1, 2, 0>>
    /\ Len(geoms) = 2

\* C9: building a trajectory from fewer than 2 poses fails and submits no
\* geometry.
C9_ShortSequenceRejected ==
    [][ (RanAddTrajectory(call') /\ Len(call'.artist.H) < 2) =>
          (err' # "none" /\ geoms' = geoms) ]_vars

\* C6: view_init writes the translation [0, 0, distance] with distance the
\* norm of the extrinsic stored when the call is made, so after any sequence
\* of calls the translation norm is the one before the first call.
C6_DistancePreserved ==
    [][ (call'.op = "view_init") =>
          /\ extrinsic'.p[1] = 0
          /\ extrinsic'.p[2] = 0
          /\ extrinsic'.p[3] >= 0
          /\ extrinsic'.p[3] * extrinsic'.p[3] = NormSq(extrinsic.p)
          /\ NormSq(extrinsic'.p) = NormSq(extrinsic0.p) ]_vars

C6_Witness ==
    /\ call.op = "view_init"
    /\ extrinsic0.p = <<2, -1, 2>>
    /\ extrinsic.p = <<0, 0, 3>>

\* C7: view_init is an absolute re-pose: the stored extrinsic after any
\* sequence of calls is the one a single call with the last (azim, elev)
\* produces from the starting extrinsic, it does not depend on the rotation
\* it replaces, and repeating the last call leaves it as it is.
C7_AbsoluteRepose ==
    (call.op = "view_init") =>
        /\ extrinsic = view_init_extrinsic(extrinsic0, call.azim, call.elev)
        /\ extrinsic = view_init_extrinsic(extrinsic, call.azim, call.elev)
        /\ extrinsic = view_init_extrinsic(transform_from(I3, extrinsic.p),
                                           call.azim, call.elev)

C7_Witness ==
    /\ call.op = "view_init"
    /\ call.azim = 90
    /\ call.elev = -90
    /\ extrinsic0.R = active_matrix_from_angle(0, 90)
    /\ extrinsic0.p = <<0, 2, 0>>
    /\ extrinsic.R # extrinsic0.R

\* a vector turned about world Z (x,y,z -> -y,x,z) or world Y
\* (x,y,z -> z,y,-x) by a whole number of quarter turns
RECURSIVE QuarterTurns(_, _, _)
QuarterTurns(axis, v, q) ==
    IF q = 0 THEN v
    ELSE QuarterTurns(axis,
                      IF axis = "Z" THEN <<-v[2], v[1], v[3]>>
                      ELSE <<v[3], v[2], -v[1]>>,
                      q - 1)

Turned(axis, v, deg) == QuarterTurns(axis, v, (deg % 360) \div 90)

\* C8: the rotation block written by view_init is the transpose of
\* Rz(azim) . Ry(-elev) . R0_camera_to_world (row j is camera axis j of the
\* reference orientation turned by -elev about Y, then azim about Z), the
\* translation is [0, 0, distance]; at (0, 0) the block is R0_world_to_camera
\* and at (90, 0) it is R0 turned a quarter about world Z.
C8_RotationComposition ==
    (call.op = "view_init") =>
        LET R0 == <<<<0, 1, 0>>, <<0, 0, -1>>, <<-1, 0, 0>>>>
        IN  /\ \A j \in 1..3 :
                  extrinsic.R[j] =
                      Turned("Z", Turned("Y", R0[j], -call.elev), call.azim)
            /\ extrinsic.p = <<0, 0, extrinsic.p[3]>>
            /\ extrinsic.p[3] * extrinsic.p[3] = NormSq(extrinsic0.p)
            /\ (call.azim = 0 /\ call.elev = 0) => extrinsic.R = R0
            /\ (call.azim = 90 /\ call.elev = 0) =>
                  extrinsic.R = <<<<-1, 0, 0>>, <<0, 0, -1>>, <<0, -1, 0>>>>

C8_Witness ==
    /\ call.op = "view_init"
    /\ call.azim = 90
    /\ call.elev = 0
    /\ extrinsic.R = <<<<-1, 0, 0>>, <<0, 0, -1>>, <<0, -1, 0>>>>
    /\ extrinsic.p = <<0, 0, 2>>

IsPrimitive(o) == o.kind \in {"Box", "Sphere", "Cylinder"}

HasMeshPath(o) == o.kind = "Mesh" /\ o.mesh_path # "None"

IsMeshGeometry(g) == g.type = "TriangleMesh"

\* C10: objects are processed in list order (collision objects, then
\* visuals); a Box, Sphere or Cylinder makes the call fail; a Mesh without a
\* mesh path is skipped and the objects after it are still processed; a Mesh
\* with a path adds one geometry posed by get_transform(mesh.frame, frame); a
\* graph without the attribute is skipped without error.
C10_UrdfObjects ==
    [][ (call'.op = "show_urdf_transform_manager") =>
          LET a == call'
              L == (IF a.collision_objects /\ a.tm.has_collision_objects
                    THEN a.tm.collision_objects ELSE << >>)
                   \o (IF a.visuals /\ a.tm.has_visuals
                       THEN a.tm.visuals ELSE << >>)
              prim == {i \in 1..Len(L) : IsPrimitive(L[i])}
              stop == IF prim = {} THEN Len(L) + 1
                      ELSE CHOOSE i \in prim : \A k \in prim : i <= k
              shown == SelectSeq(SubSeq(L, 1, stop - 1), HasMeshPath)
              added == SubSeq(geoms', Len(geoms) + 1, Len(geoms'))
              meshes == SelectSeq(added, IsMeshGeometry)
          IN  /\ SubSeq(geoms', 1, Len(geoms)) = geoms
              /\ (prim # {}) => (err' = "NotImplementedError" /\ added = meshes)
              /\ (prim = {}) => err' = "none"
              /\ Len(meshes) = Len(shown)
              /\ SubSeq(added, 1, Len(meshes)) = meshes
              /\ \A i \in 1..Len(shown) :
                    /\ meshes[i].T = get_transform(shown[i].frame, a.frame)
                    /\ meshes[i].filename = shown[i].mesh_path ]_vars

C10_Witness ==
    /\ call.op = "show_urdf_transform_manager"
    /\ call.visuals
    /\ call.tm.has_visuals
    /\ ~call.tm.has_collision_objects
    /\ call.collision_objects
    /\ call.frame = "base"
    /\ call.tm.visuals = <<UrdfObject("Mesh", "base", "None", 1),
                           UrdfObject("Mesh", "link1", "link1.stl", 2)>>
    /\ err = "none"
    /\ Len(geoms) = 2
    /\ geoms[2].type = "TriangleMesh"
    /\ geoms[2].T.p = <<1, 0, 0>>

====
